---- MODULE Spec2Model ----
(***************************************************************************)
(* Model of the notebook "Approximate Energy using Jordan-Wigner           *)
(* transformation.ipynb": the coefficient expansion loop, the job          *)
(* submission / result collection cells and calc_energy.                   *)
(*                                                                         *)
(* Numbers.  The notebook computes in floating point.  The model uses      *)
(* exact fixed-point arithmetic: a coefficient c stands for c/10, a        *)
(* frequency p for p/10 (so One = 10 is the literal 1.), and a product of  *)
(* the two, as well as energy_offset and every energy, stands for x/100.   *)
(* IEEE rounding is not modelled.                                          *)
(***************************************************************************)
EXTENDS Integers, Sequences, FiniteSets, TLC

VARIABLES
    pc,             \* the notebook cell that runs next
    fermion_terms,  \* per term type, the sequence of (qubits, coeff) pairs
    energy_offset,  \* the scalar loaded with the Hamiltonian
    coeffs,         \* the flat coefficient list
    expandRuns,     \* how many times the expansion cell has been executed
    target,         \* the ambient target set by qsharp.azure.target
    service,        \* the external service's job table, indexed by job id
    clock,          \* the service's completion counter (end_execution_time)
    jobs,           \* ids of the jobs submitted to the simulator
    jobs_hw,        \* ids of the jobs submitted to the QPU
    jobs_status,    \* the statuses read by the status cell
    results,        \* the histograms collected by the last results cell
    resultJobs,     \* the job id each element of results was read from
    terms,          \* the list summed by the last calc_energy call
    energy,         \* value of calc_energy (simulator run, or a direct call)
    energy_hw       \* value of calc_energy in the QPU run

vars == <<pc, fermion_terms, energy_offset, coeffs, expandRuns, target, service,
          clock, jobs, jobs_hw, jobs_status, results, resultJobs, terms,
          energy, energy_hw>>

\* ------------------------------------------------------------------ bounds

\* longest coefficient / result sequence handed to calc_energy directly
MaxLen == 3
\* largest number of global operator indices in a workflow run
MaxOps == 3
\* most (qubits, coeff) pairs per term type in the expansion runs
MaxTerms == 2
\* most re-executions of the expansion cell
MaxRuns == 2

\* ------------------------------------------------------------- value sets

\* the float literal 1. of calc_energy, in tenths
One == 10

CoeffVals == {-3, 0, 5}

OffsetVals == {-110, 7}

\* {"0": 1.0}
HistOne == ("0" :> 10)
\* {"0": 0.0}
HistZero == ("0" :> 0)
\* {"1": 1.0}: no "0" label
HistNoZero == ("1" :> 10)
\* {"0": 0.5, "1": 0.5}
HistHalf == ("0" :> 5 @@ "1" :> 5)
\* {"0": 1.4}: a frequency outside [0,1]
HistBad == ("0" :> 14)

HistVals == {HistOne, HistZero, HistNoZero, HistHalf, HistBad}

BoundedSeq(S, n) == UNION {[1..k -> S] : k \in 0..n}

Min(a, b) == IF a <= b THEN a ELSE b

\* ------------------------------------------------------------ calc_energy

\* dict.get(key, default)
Get(res, key, default) == IF key \in DOMAIN res THEN res[key] ELSE default

\* zip(coeffs, results): stops at the shorter of the two
Zip(cs, rs) == [i \in 1..Min(Len(cs), Len(rs)) |-> <<cs[i], rs[i]>>]

\* (2. * res.get("0", 0.0) - 1.) * coeff
TermDefaultOne(coeff, res) == (2 * Get(res, "0", One) - One) * coeff
Term(coeff, res) == (2 * Get(res, "0", 0) - One) * coeff

\* the list comprehension inside sum([...])
TermList(cs, rs) == [i \in 1..Len(Zip(cs, rs)) |-> Term(Zip(cs, rs)[i][1], Zip(cs, rs)[i][2])]

\* sum(list): left to right from 0
RECURSIVE SumUpTo(_, _)
SumUpTo(s, n) == IF n = 0 THEN 0 ELSE SumUpTo(s, n - 1) + s[n]
Sum(s) == SumUpTo(s, Len(s))

\* calc_energy(coeffs, results); energy_offset is the notebook's global
calc_energy_offset_per_term(cs, rs) ==
    Sum([i \in 1..Len(TermList(cs, rs)) |-> TermList(cs, rs)[i] + energy_offset])
calc_energy(cs, rs) == Sum(TermList(cs, rs)) + energy_offset

\* --------------------------------------------- direct calls of calc_energy

NoWorkflow ==
    /\ fermion_terms = <<>>
    /\ expandRuns = 0
    /\ target = "ionq.simulator"
    /\ service = <<>>
    /\ clock = 0
    /\ jobs = <<>>
    /\ jobs_hw = <<>>
    /\ jobs_status = <<>>
    /\ resultJobs = <<>>

InitCalc ==
    /\ pc = "call"
    /\ coeffs \in BoundedSeq(CoeffVals, MaxLen)
    /\ results \in BoundedSeq(HistVals, MaxLen)
    /\ energy_offset \in OffsetVals
    /\ terms = <<>>
    /\ energy = <<>>
    /\ energy_hw = <<>>
    /\ NoWorkflow

\* calc_energy(coeffs, results) called on arbitrary arguments
CalcEnergyCall ==
    /\ pc = "call"
    /\ terms' = TermList(coeffs, results)
    /\ energy' = <<calc_energy(coeffs, results)>>
    /\ pc' = "returned"
    /\ UNCHANGED <<fermion_terms, energy_offset, coeffs, expandRuns, target, service,
                   clock, jobs, jobs_hw, jobs_status, results, resultJobs,
                   energy_hw>>

NextCalc == CalcEnergyCall

SpecCalc == InitCalc /\ [][NextCalc]_vars

SignedValue(res) == IF "0" \in DOMAIN res THEN 2 * res["0"] - One ELSE 0 - One
RECURSIVE WeightedSum(_, _, _)
WeightedSum(cs, rs, I) ==
    IF I = {} THEN 0
    ELSE LET i == CHOOSE x \in I : TRUE
         IN SignedValue(rs[i]) * cs[i] + WeightedSum(cs, rs, I \ {i})
\* C1: for coefficient and result sequences of the same length N, calc_energy
\* returns the sum over i of (2 * results[i].get("0", 0.0) - 1) * coeffs[i] plus
\* the energy offset added exactly once; coefficients [0.5, -0.3], results
\* [{"0": 1.0}, {"0": 0.0}] and offset -1.1 give -0.3.
C1_EnergyIsSumPlusOffsetOnce ==
    /\ (pc = "returned" /\ Len(coeffs) = Len(results))
          => energy = <<WeightedSum(coeffs, results, 1..Len(coeffs)) + energy_offset>>
    /\ (pc = "returned" /\ coeffs = <<5, -3>> /\ results = <<HistOne, HistZero>>
            /\ energy_offset = -110)
          => energy = <<-30>>
C1_Witness ==
    /\ pc = "returned"
    /\ coeffs = <<5, -3>>
    /\ results = <<HistOne, HistZero>>
    /\ energy_offset = -110
    /\ energy = <<-30>>

\* C3: whenever the coefficient and the result sequence differ in length the
\* aggregator fails with LengthMismatch and produces no energy value.
C3_LengthMismatchFails ==
    (pc = "returned" /\ Len(coeffs) # Len(results)) => energy = <<>>

\* C4: whenever a result reports a frequency for "0" outside [0,1] the aggregator
\* fails with InvalidResult and produces no energy value.
C4_InvalidResultFails ==
    (pc = "returned" /\ \E i \in DOMAIN results : Get(results[i], "0", 0) \notin 0..One)
        => energy = <<>>

\* C6: a result without a "0" label counts as frequency 0 and contributes
\* -coeffs[i], the same as {"0": 0.0}; a result {"0": 1.0} contributes +coeffs[i].
C6_MissingLabelIsZero ==
    pc = "returned" =>
        /\ Len(terms) = Min(Len(coeffs), Len(results))
        /\ \A i \in DOMAIN terms :
              /\ "0" \notin DOMAIN results[i] => terms[i] = (0 - One) * coeffs[i]
              /\ results[i] = HistZero => terms[i] = (0 - One) * coeffs[i]
              /\ results[i] = HistOne => terms[i] = One * coeffs[i]
        /\ energy = <<Sum(terms) + energy_offset>>
C6_Witness ==
    /\ pc = "returned"
    /\ \E i, j \in DOMAIN terms :
          /\ results[i] = HistNoZero /\ coeffs[i] # 0 /\ terms[i] = (0 - One) * coeffs[i]
          /\ results[j] = HistOne /\ coeffs[j] # 0 /\ terms[j] = One * coeffs[j]

\* ------------------------------------------------- coefficient expansion

\* number of measurement operators a term of the given type expands to
Arity(termType) == IF termType = 0 THEN 1 ELSE 2

\* ExpandedCoefficients_(coeff=coeff, termType=term_type): the coefficient at
\* each of the term type's operator indices
ExpandedCoefficients_(coeff, termType) == [i \in 1..Arity(termType) |-> coeff]

\* for (qubits, coeff) in terms: coeffs += ExpandedCoefficients_(...)
RECURSIVE ExpandTermsPrepend(_, _, _, _)
ExpandTermsPrepend(acc, ts, term_type, k) ==
    IF k > Len(ts) THEN acc
    ELSE ExpandTermsPrepend(ExpandedCoefficients_(ts[k].coeff, term_type) \o acc,
                            ts, term_type, k + 1)
RECURSIVE ExpandTerms(_, _, _, _)
ExpandTerms(acc, ts, term_type, k) ==
    IF k > Len(ts) THEN acc
    ELSE ExpandTerms(acc \o ExpandedCoefficients_(ts[k].coeff, term_type),
                     ts, term_type, k + 1)

\* for term_type, terms in enumerate(fermion_terms): ...
RECURSIVE ExpandTypesPrepend(_, _, _)
ExpandTypesPrepend(acc, ft, i) ==
    IF i > Len(ft) THEN acc
    ELSE ExpandTypesPrepend(ExpandTermsPrepend(acc, ft[i], i - 1, 1), ft, i + 1)
RECURSIVE ExpandTypes(_, _, _)
ExpandTypes(acc, ft, i) ==
    IF i > Len(ft) THEN acc
    ELSE ExpandTypes(ExpandTerms(acc, ft[i], i - 1, 1), ft, i + 1)

\* coeffs = [] followed by the two loops
ExpandLoopPrepend(ft) == ExpandTypesPrepend(<<>>, ft, 1)
ExpandLoop(ft) == ExpandTypes(<<>>, ft, 1)

\* the total number of global operator indices of an encoding
RECURSIVE OperatorCountUpTo(_, _)
OperatorCountUpTo(ft, n) ==
    IF n = 0 THEN 0 ELSE OperatorCountUpTo(ft, n - 1) + Len(ft[n]) * Arity(n - 1)
OperatorCount(ft) == OperatorCountUpTo(ft, Len(ft))

\* term types 0 and 1, as indexes of fermion_terms
TermTypeIndexes == 1..2

\* operator id 99 is one no encoding of the sizes checked here defines
ExpandPairs == [qubits : {0, 99}, coeff : CoeffVals]

NotStarted ==
    /\ pc = "expand"
    /\ coeffs = <<>>
    /\ expandRuns = 0
    /\ target = "ionq.simulator"
    /\ service = <<>>
    /\ clock = 0
    /\ jobs = <<>>
    /\ jobs_hw = <<>>
    /\ jobs_status = <<>>
    /\ results = <<>>
    /\ resultJobs = <<>>
    /\ terms = <<>>
    /\ energy = <<>>
    /\ energy_hw = <<>>

InitExpand ==
    /\ fermion_terms \in [TermTypeIndexes -> BoundedSeq(ExpandPairs, MaxTerms)]
    /\ energy_offset = -110
    /\ NotStarted

\* the expansion cell, run for the first time
ExpandCell ==
    /\ pc = "expand"
    /\ coeffs' = ExpandLoop(fermion_terms)
    /\ expandRuns' = expandRuns + 1
    /\ pc' = "submit"
    /\ UNCHANGED <<fermion_terms, energy_offset, target, service, clock, jobs,
                   jobs_hw, jobs_status, results, resultJobs, terms, energy, energy_hw>>

\* the expansion cell, executed again on the same fermion_terms
RerunExpandCell ==
    /\ pc = "submit"
    /\ expandRuns <= MaxRuns
    /\ coeffs' = ExpandLoop(fermion_terms)
    /\ expandRuns' = expandRuns + 1
    /\ UNCHANGED <<pc, fermion_terms, energy_offset, target, service, clock, jobs,
                   jobs_hw, jobs_status, results, resultJobs, terms, energy, energy_hw>>

NextExpand == ExpandCell \/ RerunExpandCell

SpecExpand == InitExpand /\ [][NextExpand]_vars

PairsBefore(ft, t, k) ==
    OperatorCountUpTo(ft, t - 1) + (k - 1) * Arity(t - 1)
AllPairs(ft) == {<<t, k>> \in (DOMAIN ft) \X (1..MaxTerms + 1) : k \in DOMAIN ft[t]}
InvalidEncoding(ft) ==
    \/ \E p \in AllPairs(ft) :
          ft[p[1]][p[2]].qubits \notin 0..(OperatorCount(ft) - 1)
    \/ \E p, q \in AllPairs(ft) :
          /\ p # q
          /\ ft[p[1]][p[2]].qubits = ft[q[1]][q[2]].qubits
          /\ ft[p[1]][p[2]].coeff # 0
          /\ ft[q[1]][q[2]].coeff # 0
          /\ ft[p[1]][p[2]].coeff # ft[q[1]][q[2]].coeff
\* C8: the expansion fails with InvalidEncoding, instead of producing a
\* coefficient sequence, when a measurement operator id is outside the valid
\* range for the total operator count or when two terms claim the same operator
\* index with conflicting nonzero coefficients.
C8_InvalidEncodingFails ==
    (expandRuns > 0 /\ InvalidEncoding(fermion_terms)) => (pc = "error" /\ coeffs = <<>>)

\* ------------------------------------------------------ the job workflow

\* for n_op, coeff in enumerate(coeffs) if coeff != 0.0: the n_op kept
NonzeroOpsFromOne(cs) ==
    LET F[k \in 0..Len(cs)] ==
            IF k = 0 THEN <<>>
            ELSE IF cs[k] # 0 THEN Append(F[k - 1], k) ELSE F[k - 1]
    IN F[Len(cs)]
NonzeroOps(cs) ==
    LET F[k \in 0..Len(cs)] ==
            IF k = 0 THEN <<>>
            ELSE IF cs[k] # 0 THEN Append(F[k - 1], k - 1) ELSE F[k - 1]
    IN F[Len(cs)]

\* qsharp.azure.submit(GetHamiltonianTermH2, nOp=n_op, ...): a new job on the
\* ambient target, waiting to be executed
NewJob(id, n_op) ==
    [id |-> id, nOp |-> n_op, target |-> target, status |-> "Waiting",
     end_execution_time |-> 0]

\* the job table after the comprehension has submitted one job per kept n_op
SubmitAll(svc, ops) == svc \o [i \in 1..Len(ops) |-> NewJob(Len(svc) + i, ops[i])]

\* the job handles the comprehension collects
Submitted(svc, ops) == [i \in 1..Len(ops) |-> Len(svc) + i]

\* the histogram a device returns for an operator: fixed per target and n_op
DeviceHists == <<HistOne, HistNoZero, HistHalf>>
Measure(tgt, n_op) ==
    DeviceHists[((n_op + (IF tgt = "ionq.qpu" THEN 1 ELSE 0)) % 3) + 1]

\* qsharp.azure.output(j.id) yields a histogram only for a job that succeeded
OutputReady(id) == service[id].status = "Succeeded"
Output(id) == Measure(service[id].target, service[id].nOp)

\* [... for j in jobs]: the jobs in job-list order (CompletionOrder: in the
\* order the service finished them)
CompletionOrder(js) ==
    LET n == Len(js)
        Rank(i) == Cardinality({k \in 1..n :
                       \/ service[js[k]].end_execution_time
                              < service[js[i]].end_execution_time
                       \/ /\ service[js[k]].end_execution_time
                                = service[js[i]].end_execution_time
                          /\ k <= i})
    IN [r \in 1..n |-> js[CHOOSE i \in 1..n : Rank(i) = r]]
CollectOrder(js) == js

\* the job list the QPU results cell reads
StaleJobList == jobs
HwJobList == jobs_hw

WorkflowPairs == [qubits : {0}, coeff : CoeffVals]

InitWorkflow ==
    /\ fermion_terms \in {ft \in [TermTypeIndexes -> BoundedSeq(WorkflowPairs, MaxOps)] :
                             OperatorCount(ft) <= MaxOps}
    /\ energy_offset = -110
    /\ NotStarted

\* jobs = [qsharp.azure.submit(...) for n_op, coeff in enumerate(coeffs) if coeff != 0.0]
SubmitCell ==
    /\ pc = "submit"
    /\ service' = SubmitAll(service, NonzeroOps(coeffs))
    /\ jobs' = Submitted(service, NonzeroOps(coeffs))
    /\ pc' = "results"
    /\ UNCHANGED <<fermion_terms, energy_offset, coeffs, expandRuns, target, clock, jobs_hw, jobs_status, results, resultJobs, terms, energy, energy_hw>>

\* the run is over: a results cell raised, or the last cell has run
RunEnded == pc \in {"error", "error_hw", "done"}

\* the external service finishes a waiting job (observed until the run ends)
JobSucceeds(id) ==
    /\ ~RunEnded
    /\ service[id].status = "Waiting"
    /\ clock' = clock + 1
    /\ service' = [service EXCEPT ![id].status = "Succeeded",
                                  ![id].end_execution_time = clock + 1]
    /\ UNCHANGED <<pc, fermion_terms, energy_offset, coeffs, expandRuns, target, jobs, jobs_hw, jobs_status, results, resultJobs, terms, energy,
                   energy_hw>>

\* the external service fails a waiting job
JobFails(id) ==
    /\ ~RunEnded
    /\ service[id].status = "Waiting"
    /\ clock' = clock + 1
    /\ service' = [service EXCEPT ![id].status = "Failed",
                                  ![id].end_execution_time = clock + 1]
    /\ UNCHANGED <<pc, fermion_terms, energy_offset, coeffs, expandRuns, target, jobs, jobs_hw, jobs_status, results, resultJobs, terms, energy,
                   energy_hw>>

\* results = [qsharp.azure.output(j.id) for j in jobs]
ResultsCell ==
    /\ pc = "results"
    /\ \A i \in DOMAIN jobs : OutputReady(jobs[i])
    /\ results' = [i \in DOMAIN jobs |-> Output(CollectOrder(jobs)[i])]
    /\ resultJobs' = CollectOrder(jobs)
    /\ pc' = "calc"
    /\ UNCHANGED <<fermion_terms, energy_offset, coeffs, expandRuns, target, service,
                   clock, jobs, jobs_hw, jobs_status, terms, energy, energy_hw>>

\* the same cell when output raises for a job that has not succeeded: results
\* is not assigned and the run ends
ResultsCellRaises ==
    /\ pc = "results"
    /\ \E i \in DOMAIN jobs : ~OutputReady(jobs[i])
    /\ pc' = "error"
    /\ UNCHANGED <<fermion_terms, energy_offset, coeffs, expandRuns, target, service,
                   clock, jobs, jobs_hw, jobs_status, results, resultJobs, terms,
                   energy, energy_hw>>

\* calc_energy(coeffs, results), simulator run
CalcCell ==
    /\ pc = "calc"
    /\ terms' = TermList(coeffs, results)
    /\ energy' = <<calc_energy(coeffs, results)>>
    /\ pc' = "target_qpu"
    /\ UNCHANGED <<fermion_terms, energy_offset, coeffs, expandRuns, target, service,
                   clock, jobs, jobs_hw, jobs_status, results, resultJobs,
                   energy_hw>>

\* qsharp.azure.target("ionq.qpu")
TargetQpuCell ==
    /\ pc = "target_qpu"
    /\ target' = "ionq.qpu"
    /\ pc' = "submit_hw"
    /\ UNCHANGED <<fermion_terms, energy_offset, coeffs, expandRuns, service, clock, jobs, jobs_hw, jobs_status, results, resultJobs, terms, energy,
                   energy_hw>>

\* jobs_hw = [qsharp.azure.submit(...) for n_op, coeff in enumerate(coeffs) if coeff != 0]
SubmitHwCell ==
    /\ pc = "submit_hw"
    /\ service' = SubmitAll(service, NonzeroOps(coeffs))
    /\ jobs_hw' = Submitted(service, NonzeroOps(coeffs))
    /\ pc' = "status"
    /\ UNCHANGED <<fermion_terms, energy_offset, coeffs, expandRuns, target, clock, jobs, jobs_status, results, resultJobs, terms, energy, energy_hw>>

\* jobs_status = [qsharp.azure.status(j) for j in jobs_hw]
StatusCell ==
    /\ pc = "status"
    /\ jobs_status' = [i \in DOMAIN jobs_hw |-> service[jobs_hw[i]].status]
    /\ pc' = "results_hw"
    /\ UNCHANGED <<fermion_terms, energy_offset, coeffs, expandRuns, target, service,
                   clock, jobs, jobs_hw, results, resultJobs, terms, energy,
                   energy_hw>>

\* results = [qsharp.azure.output(j.id) for j in jobs_hw]
ResultsHwCell ==
    /\ pc = "results_hw"
    /\ \A i \in DOMAIN HwJobList : OutputReady(HwJobList[i])
    /\ results' = [i \in DOMAIN HwJobList |-> Output(CollectOrder(HwJobList)[i])]
    /\ resultJobs' = CollectOrder(HwJobList)
    /\ pc' = "calc_hw"
    /\ UNCHANGED <<fermion_terms, energy_offset, coeffs, expandRuns, target, service,
                   clock, jobs, jobs_hw, jobs_status, terms, energy, energy_hw>>

ResultsHwCellRaises ==
    /\ pc = "results_hw"
    /\ \E i \in DOMAIN HwJobList : ~OutputReady(HwJobList[i])
    /\ pc' = "error_hw"
    /\ UNCHANGED <<fermion_terms, energy_offset, coeffs, expandRuns, target, service,
                   clock, jobs, jobs_hw, jobs_status, results, resultJobs, terms,
                   energy, energy_hw>>

\* calc_energy(coeffs, results), QPU run
CalcHwCell ==
    /\ pc = "calc_hw"
    /\ terms' = TermList(coeffs, results)
    /\ energy_hw' = <<calc_energy(coeffs, results)>>
    /\ pc' = "done"
    /\ UNCHANGED <<fermion_terms, energy_offset, coeffs, expandRuns, target, service,
                   clock, jobs, jobs_hw, jobs_status, results, resultJobs, energy>>

Next ==
    \/ ExpandCell
    \/ SubmitCell
    \/ \E id \in DOMAIN service : JobSucceeds(id)
    \/ \E id \in DOMAIN service : JobFails(id)
    \/ ResultsCell
    \/ ResultsCellRaises
    \/ CalcCell
    \/ TargetQpuCell
    \/ SubmitHwCell
    \/ StatusCell
    \/ ResultsHwCell
    \/ ResultsHwCellRaises
    \/ CalcHwCell

Spec == InitWorkflow /\ [][Next]_vars

\* the cells after which the job lists exist
JobsSubmitted == pc \notin {"expand", "submit"}
HwJobsSubmitted == pc \in {"status", "results_hw", "error_hw", "calc_hw", "done"}
\* calc_energy has just consumed coeffs and results
CalcInvoked == pc \in {"target_qpu", "done"}

\* C2: the coefficient and result sequences consumed by the aggregator have the
\* same length and are index-aligned: the i-th result is the measurement of the
\* operator whose global index carries the i-th coefficient.
C2_ResultsAlignedWithCoeffs ==
    CalcInvoked =>
        /\ Len(results) = Len(coeffs)
        /\ \A i \in DOMAIN results : service[resultJobs[i]].nOp = i - 1

OpsOf(js) == {service[js[k]].nOp : k \in DOMAIN js}
OneJobPerNonzero(js, tgt) ==
    /\ OpsOf(js) = {n \in 0..(Len(coeffs) - 1) : coeffs[n + 1] # 0}
    /\ \A k \in 1..(Len(js) - 1) :
          /\ service[js[k]].nOp < service[js[k + 1]].nOp
          /\ js[k] < js[k + 1]
    /\ \A k \in DOMAIN js : service[js[k]].target = tgt
    /\ {id \in DOMAIN service : service[id].target = tgt} = {js[k] : k \in DOMAIN js}
\* C5: exactly one job is submitted for each global operator index whose
\* coefficient is nonzero and none for a zero coefficient, each with nOp equal to
\* that index, in increasing index order, on the simulator (jobs) and on the QPU
\* (jobs_hw), so that both lists cover the same index set.
C5_OneJobPerNonzeroCoefficient ==
    /\ JobsSubmitted => OneJobPerNonzero(jobs, "ionq.simulator")
    /\ HwJobsSubmitted =>
          /\ OneJobPerNonzero(jobs_hw, "ionq.qpu")
          /\ OpsOf(jobs_hw) = OpsOf(jobs)
C5_Witness ==
    /\ HwJobsSubmitted
    /\ coeffs = <<0, 5, -3>>
    /\ Len(jobs) = 2
    /\ Len(jobs_hw) = 2
    /\ service[jobs_hw[1]].nOp = 1
    /\ service[jobs_hw[2]].nOp = 2

NthNonzeroOp(k) ==
    CHOOSE n \in 0..(Len(coeffs) - 1) :
        /\ coeffs[n + 1] # 0
        /\ Cardinality({m \in 0..n : coeffs[m + 1] # 0}) = k
NonzeroCount == Cardinality({n \in 1..Len(coeffs) : coeffs[n] # 0})
RECURSIVE OrderFreeSum(_, _)
OrderFreeSum(tgt, k) ==
    IF k = 0 THEN 0
    ELSE OrderFreeSum(tgt, k - 1) + SignedValue(Measure(tgt, NthNonzeroOp(k))) * coeffs[k]
OrderFreeEnergy(tgt) == OrderFreeSum(tgt, NonzeroCount) + energy_offset
\* C9: for fixed coefficients and a fixed measurement result per operator index
\* the energy estimate is the same for every order in which the submitted jobs
\* complete, because results are collected in job-list order.
C9_EnergyIndependentOfCompletionOrder ==
    /\ pc \in {"target_qpu", "done"} => energy = <<OrderFreeEnergy("ionq.simulator")>>
    /\ pc = "done" => energy_hw = <<OrderFreeEnergy("ionq.qpu")>>
C9_Witness ==
    /\ pc = "done"
    /\ energy_hw = <<OrderFreeEnergy("ionq.qpu")>>
    /\ Len(coeffs) > 1
    /\ coeffs[1] # 0
    /\ \E i, j \in DOMAIN jobs_hw :
          /\ i < j
          /\ service[jobs_hw[j]].end_execution_time
                < service[jobs_hw[i]].end_execution_time
          /\ results[i] # results[j]
    /\ \E i, j \in DOMAIN jobs :
          /\ i < j
          /\ service[jobs[i]].end_execution_time < service[jobs[j]].end_execution_time

AllSucceeded(js) == \A i \in DOMAIN js : service[js[i]].status = "Succeeded"
\* C10: calc_energy is invoked only after a result has been collected for every
\* submitted job: no energy value exists while a job of the current job list is
\* pending or has failed, and the results aggregated in the QPU run all come from
\* jobs_hw, none from the simulator jobs.
C10_EnergyOnlyAfterAllResults ==
    /\ (pc = "calc" \/ energy # <<>>) => AllSucceeded(jobs)
    /\ (pc \in {"calc", "target_qpu"}) => (resultJobs = jobs /\ Len(results) = Len(jobs))
    /\ (pc = "calc_hw" \/ energy_hw # <<>>) =>
          /\ AllSucceeded(jobs_hw)
          /\ resultJobs = jobs_hw
          /\ Len(results) = Len(jobs_hw)
          /\ \A i \in DOMAIN resultJobs : service[resultJobs[i]].target = "ionq.qpu"
    /\ (pc \in {"error", "error_hw"}) => energy_hw = <<>>
    /\ pc = "error" => energy = <<>>
C10_Witness ==
    /\ pc = "done"
    /\ energy # <<>>
    /\ energy_hw # <<>>
    /\ Len(jobs_hw) = 2
    /\ \E i \in DOMAIN jobs_status : jobs_status[i] = "Waiting"

====
